---- MODULE Spec2Model ----
(***************************************************************************)
(* Model of function_app.py: the HTTP handler ai_today, the orchestrator   *)
(* crawl_today, link discovery (get_article_links) and the publication     *)
(* timestamp resolver of parse_article.                                    *)
(*                                                                         *)
(* Python values are modelled as tagged records so that values of          *)
(* different Python types can be compared: [k |-> "none"] is None.         *)
(* Times are kept at hour granularity; a datetime carries its calendar     *)
(* date (y, m, d), its hour and its UTC offset in hours.                   *)
(***************************************************************************)
EXTENDS Integers, Sequences, FiniteSets, TLC

\* ------------------------------------------------------------------ bounds
MaxAnchors == 3      \* anchors on a category page (get_article_links inputs)
MaxLimit == 2        \* largest limit tried on get_article_links directly
MaxBlocks == 2       \* JSON-LD script blocks on an article page
MaxNow == 24         \* last clock hour (hours since 2025-01-01T00:00 KST)

\* ------------------------------------------------------------ Python values
NoneV == [k |-> "none"]

\* 40, 80: default and upper clamp of limit; 7, 20: default and upper clamp
\* of sleep, in tenths of a second (0.7 s, 2 s).
DefaultLimit == 40
LimitCap == 80
DefaultSleep == 7
SleepCap == 20
KSTOffset == 9

\* --------------------------------------------------------------- calendar
IsLeap(y) == (y % 4 = 0) /\ ((y % 100 # 0) \/ (y % 400 = 0))

DaysInMonth(y, m) ==
    IF m = 2 THEN (IF IsLeap(y) THEN 29 ELSE 28)
    ELSE IF m \in {4, 6, 9, 11} THEN 30 ELSE 31

\* datetime(y, m, d) raises ValueError outside these ranges.
ValidDate(y, m, d) ==
    /\ y >= 1 /\ y <= 9999
    /\ m >= 1 /\ m <= 12
    /\ d >= 1 /\ d <= DaysInMonth(y, m)

Date(y, m, d) == [y |-> y, m |-> m, d |-> d]

NextDay(dt) ==
    IF dt.d < DaysInMonth(dt.y, dt.m) THEN Date(dt.y, dt.m, dt.d + 1)
    ELSE IF dt.m < 12 THEN Date(dt.y, dt.m + 1, 1)
    ELSE Date(dt.y + 1, 1, 1)

PrevDay(dt) ==
    IF dt.d > 1 THEN Date(dt.y, dt.m, dt.d - 1)
    ELSE IF dt.m > 1 THEN Date(dt.y, dt.m - 1, DaysInMonth(dt.y, dt.m - 1))
    ELSE Date(dt.y - 1, 12, 31)

RECURSIVE AddDays(_, _)
AddDays(dt, n) ==
    IF n = 0 THEN dt
    ELSE IF n > 0 THEN AddDays(NextDay(dt), n - 1)
    ELSE AddDays(PrevDay(dt), n + 1)

\* -------------------------------------------------------------- datetimes
\* An aware datetime: wall-clock date and hour at UTC offset off.
DT(date, hour, off) == [k |-> "dt", date |-> date, hour |-> hour, off |-> off]

\* Floor division and modulus by 24 for possibly negative hours.
FloorDiv24(h) == IF h >= 0 THEN h \div 24 ELSE -((-h + 23) \div 24)

\* datetime.astimezone(tz): same instant, wall clock moved to offset off2.
AsTimezone(dt, off2) ==
    LET h == dt.hour - dt.off + off2
        days == FloorDiv24(h)
    IN  DT(AddDays(dt.date, days), h - 24 * days, off2)

\* datetime.date()
DateOf(dt) == dt.date

\* An ISO-8601 string: its date, hour and offset text; z is a trailing "Z"
\* in place of a numeric offset.  [k |-> "junk"] is a string that is not
\* ISO-8601.
Iso(date, hour, off, z) ==
    [k |-> "iso", date |-> date, hour |-> hour, off |-> off, z |-> z]
JunkStr == [k |-> "junk"]

\* datetime.isoformat() of an aware datetime: numeric offset, never "Z".
IsoFormat(dt) == Iso(dt.date, dt.hour, dt.off, FALSE)

\* datetime.fromisoformat(s.replace("Z", "+00:00")); NoneV stands for the
\* ValueError the callers catch.
FromIsoFormat(s) ==
    IF s.k # "iso" THEN NoneV
    ELSE IF ~ValidDate(s.date.y, s.date.m, s.date.d) THEN NoneV
    ELSE IF s.hour < 0 \/ s.hour > 23 THEN NoneV
    ELSE DT(s.date, s.hour, IF s.z THEN 0 ELSE s.off)

\* Python truthiness of an optional value / string.
Truthy(v) ==
    /\ v.k \notin {"none", "empty"}
    /\ (v.k = "num" => v.v # 0)

\* ------------------------------------------------------- article pages
\* An article page as parse_article sees it:
\*   meta  content of the first <meta property|name="article:published_time">
\*         (NoneV: no such tag)
\*   ld    the <script type="application/ld+json"> blocks in document order;
\*         a block is [k |-> "badjson"] or [k |-> "objs", objs |-> <<...>>]
\*   time  the first <time> element: NoneV or
\*         [k |-> "time", datetime |-> attribute, text |-> visible text]
\*   text  the visible text of the whole page
\*   paras the joined <p> text of the page
\* A visible text is [k |-> "empty"], [k |-> "plain"] (no month-day-year
\* pattern) or [k |-> "hdate", m, d, y]: its first "<Month> <d>, <yyyy>" match.
EmptyStr == [k |-> "empty"]
PlainText == [k |-> "plain"]
HDate(m, d, y) == [k |-> "hdate", m |-> m, d |-> d, y |-> y]

LdTypes == {"NewsArticle", "Article", "BlogPosting"}

LdObj(type, dp, dc, body) ==
    [type |-> type, datePublished |-> dp, dateCreated |-> dc, articleBody |-> body]
BadJson == [k |-> "badjson"]
LdBlock(objs) == [k |-> "objs", objs |-> objs]

\* a or b
PyOr(a, b) == IF Truthy(a) THEN a ELSE b

parse_human_datetime(text) ==
    IF text.k # "hdate" THEN NoneV
    ELSE IF ~ValidDate(text.y, text.m, text.d) THEN NoneV
    ELSE DT(Date(text.y, text.m, text.d), 0, 0)

get_meta_datetime(page) ==
    IF Truthy(page.meta) THEN FromIsoFormat(page.meta) ELSE NoneV

\* Index of the first object of a recognised type with a truthy
\* datePublished-or-dateCreated, 0 if none.
FirstDated(objs) ==
    LET hits == {i \in 1..Len(objs) :
                    /\ objs[i].type \in LdTypes
                    /\ Truthy(PyOr(objs[i].datePublished, objs[i].dateCreated))}
    IN  IF hits = {} THEN 0 ELSE CHOOSE i \in hits : \A j \in hits : i <= j

RECURSIVE LdScan(_, _)
LdScan(blocks, n) ==
    IF n > Len(blocks) THEN NoneV
    ELSE IF blocks[n].k = "badjson" THEN LdScan(blocks, n + 1)
    ELSE LET i == FirstDated(blocks[n].objs)
         IN  IF i = 0 THEN LdScan(blocks, n + 1)
             ELSE LET o == blocks[n].objs[i]
                      r == FromIsoFormat(PyOr(o.datePublished, o.dateCreated))
                  IN  IF r.k = "dt" THEN r ELSE LdScan(blocks, n + 1)

get_ldjson_datetime(page) == LdScan(page.ld, 1)

get_time_tag_datetime(page) ==
    LET t == page.time
        attr == IF Truthy(t) /\ Truthy(t.datetime)
                THEN FromIsoFormat(t.datetime) ELSE NoneV
    IN  IF attr.k = "dt" THEN attr
        ELSE IF Truthy(t) /\ Truthy(t.text) THEN parse_human_datetime(t.text)
        ELSE NoneV

get_text_datetime_fallback(page) == parse_human_datetime(page.text)

\* published_dt of parse_article: the or-chain of the four strategies.
ResolveSwapped(page) ==
    PyOr(get_ldjson_datetime(page),
         PyOr(get_meta_datetime(page),
              PyOr(get_time_tag_datetime(page), get_text_datetime_fallback(page))))

ResolveTimestamp(page) ==
    PyOr(get_meta_datetime(page),
         PyOr(get_ldjson_datetime(page),
              PyOr(get_time_tag_datetime(page), get_text_datetime_fallback(page))))

RECURSIVE LdBodyScan(_, _)
LdBodyScan(blocks, n) ==
    IF n > Len(blocks) THEN NoneV
    ELSE IF blocks[n].k = "badjson" THEN LdBodyScan(blocks, n + 1)
    ELSE LET objs == blocks[n].objs
             hits == {i \in 1..Len(objs) :
                         objs[i].type \in LdTypes /\ Truthy(objs[i].articleBody)}
         IN  IF hits = {} THEN LdBodyScan(blocks, n + 1)
             ELSE objs[CHOOSE i \in hits : \A j \in hits : i <= j].articleBody

get_ldjson_article_body(page) == LdBodyScan(page.ld, 1)

extract_paragraphs(page) == page.paras

\* The outcome of fetch(url): a page, or the exception requests raised.
FetchError == [k |-> "error"]
ParseFailed == [k |-> "raised"]

\* parse_article(url) given what fetch(url) produced.  ParseFailed is any
\* exception: the transport error, or .strip() on a non-string articleBody.
parse_article(url, fetched) ==
    IF fetched.k = "error" THEN ParseFailed
    ELSE LET published_dt == ResolveTimestamp(fetched)
             body_text == PyOr(get_ldjson_article_body(fetched),
                               extract_paragraphs(fetched))
         IN  IF body_text.k = "num" THEN ParseFailed
             ELSE [k |-> "art",
                   url |-> url,
                   published_utc |->
                       IF Truthy(published_dt)
                       THEN IsoFormat(AsTimezone(published_dt, 0)) ELSE NoneV,
                   published_kst |->
                       IF Truthy(published_dt)
                       THEN IsoFormat(AsTimezone(published_dt, KSTOffset)) ELSE NoneV,
                   body |-> body_text]

\* The comparison made on the UTC calendar date.
is_today_utc(dt, today_kst) ==
    IF ~Truthy(dt) THEN FALSE
    ELSE DateOf(AsTimezone(dt, 0)) = DateOf(today_kst)

is_today_kst(dt, today_kst) ==
    IF ~Truthy(dt) THEN FALSE
    ELSE DateOf(AsTimezone(dt, KSTOffset)) = DateOf(today_kst)

\* ---------------------------------------------------------------- URLs
\* A URL or href as urlparse splits it: scheme ("" if none), netloc as the
\* sequence of text chunks that spell it (<<>> if none), and the path as its
\* segments, with abs = leading "/" and trail = trailing "/".
Url(scheme, netloc, abs, segs, trail) ==
    [k |-> "url", scheme |-> scheme, netloc |-> netloc, abs |-> abs,
     segs |-> segs, trail |-> trail]

TC == <<"techcrunch.com">>

CATEGORY_URL == Url("https", TC, TRUE, <<"category", "artificial-intelligence">>, TRUE)

\* Segments matching 20\d{2} and \d{2}.
YearSegs == {"2025"}
MonthSegs == {"09"}

\* re.search(r"/20\d{2}/\d{2}/", path) is not None
HasYearMonth(u) ==
    \E i \in 1..(Len(u.segs) - 1) :
        /\ u.segs[i] \in YearSegs
        /\ u.segs[i + 1] \in MonthSegs
        /\ (i > 1 \/ u.abs)
        /\ (i + 1 < Len(u.segs) \/ u.trail)

\* "techcrunch.com" in netloc: a substring test on the netloc text.
NetlocContainsTC(netloc) == \E i \in 1..Len(netloc) : netloc[i] = "techcrunch.com"

is_article_url(href) ==
    /\ (NetlocContainsTC(href.netloc) \/ href.netloc = <<>>)
    /\ HasYearMonth(href)

\* urljoin(base, href) for hrefs with a non-empty path and no dot segments.
UrlJoin(base, href) ==
    IF href.scheme # "" THEN href
    ELSE IF href.netloc # <<>> THEN [href EXCEPT !.scheme = base.scheme]
    ELSE IF href.abs THEN
        Url(base.scheme, base.netloc, TRUE, href.segs, href.trail)
    ELSE
        LET dir == IF base.trail \/ base.segs = <<>> THEN base.segs
                   ELSE SubSeq(base.segs, 1, Len(base.segs) - 1)
        IN  Url(base.scheme, base.netloc, TRUE, dir \o href.segs, href.trail)

normalize_link(href) == UrlJoin(CATEGORY_URL, href)

\* A category page: its <a href> elements in document order; h3 marks the
\* first href-bearing anchor inside an <h3>.
Anchor(href, h3) == [href |-> href, h3 |-> h3]

\* Pass 1: the anchors of the h3 headings.
PrimaryPass(doc) ==
    {normalize_link(doc[i].href) :
        i \in {j \in 1..Len(doc) : doc[j].h3 /\ is_article_url(doc[j].href)}}

\* Pass 2: every anchor in document order, until limit links are held.
RECURSIVE SecondaryPass(_, _, _, _)
SecondaryPass(doc, i, links, limit) ==
    IF i > Len(doc) THEN links
    ELSE LET added == IF is_article_url(doc[i].href)
                      THEN links \cup {normalize_link(doc[i].href)} ELSE links
         IN  IF Cardinality(added) >= limit THEN added
             ELSE SecondaryPass(doc, i + 1, added, limit)

CollectLinks(doc, limit) ==
    LET links == PrimaryPass(doc)
    IN  IF Cardinality(links) < limit THEN SecondaryPass(doc, 1, links, limit)
        ELSE links

\* list(links): a Python set of strings iterates in an order fixed by the
\* string hashes, which are randomised per process; every order can occur.
ListOfSet(S) ==
    {f \in [1..Cardinality(S) -> S] : \A i, j \in DOMAIN f : i # j => f[i] # f[j]}

\* seq[:limit]
NoTruncate(seq, limit) == seq

Truncate(seq, limit) ==
    IF Len(seq) <= limit THEN seq ELSE SubSeq(seq, 1, limit)

\* The lists get_article_links can return for the page doc served at
\* category_url (the URL is only the fetch target).
get_article_links(category_url, doc, limit) ==
    {Truncate(l, limit) : l \in ListOfSet(CollectLinks(doc, limit))}

\* ------------------------------------------------------------- requests
\* Parameter texts.  A date text is the sequence of its "-"-separated
\* fields, each a decimal integer literal or some other text; a number text
\* is an integer literal (Lit), a decimal literal in tenths (Dec), "nan" or
\* some other non-empty text (Txt).
IntField(n) == [k |-> "int", v |-> n]
TxtField == [k |-> "txt"]
DStr(parts) == [k |-> "dstr", parts |-> parts]
Lit(n) == [k |-> "lit", v |-> n]
Dec(t) == [k |-> "dec", v |-> t]
NanStr == [k |-> "nan"]
Txt == [k |-> "txt"]
\* JSON numbers of a request body: an integer, or a decimal in tenths.
Num(n) == [k |-> "num", v |-> n]
\* "key not in body"
Absent == [k |-> "absent"]

\* str(v) as lines 282-283 apply it to a body value.
Str(v) ==
    IF v.k = "num" THEN Lit(v.v)
    ELSE IF v.k = "none" THEN Txt
    ELSE v

\* int(s): [ok |-> FALSE] is the ValueError.
ParseInt(s) ==
    IF s.k = "lit" THEN [ok |-> TRUE, v |-> s.v] ELSE [ok |-> FALSE, v |-> 0]

\* A float in tenths of a second, or NaN.
Float(t) == [k |-> "f", v |-> t]
NaN == [k |-> "nan"]

\* float(s)
ParseFloat(s) ==
    IF s.k = "lit" THEN [ok |-> TRUE, v |-> Float(10 * s.v)]
    ELSE IF s.k = "dec" THEN [ok |-> TRUE, v |-> Float(s.v)]
    ELSE IF s.k = "nan" THEN [ok |-> TRUE, v |-> NaN]
    ELSE [ok |-> FALSE, v |-> NaN]

Min(a, b) == IF a < b THEN a ELSE b
Max(a, b) == IF a > b THEN a ELSE b

\* Lines 300-305.
ParseLimit(limit_str) ==
    IF Truthy(limit_str) /\ ParseInt(limit_str).ok
    THEN Max(1, Min(ParseInt(limit_str).v, LimitCap))
    ELSE DefaultLimit

\* Lines 307-316: both comparisons are false for NaN, which passes unclamped.
ParseSleep(sleep_str) ==
    IF Truthy(sleep_str) /\ ParseFloat(sleep_str).ok
    THEN LET f == ParseFloat(sleep_str).v
         IN  IF f.k = "nan" THEN f
             ELSE IF f.v < 0 THEN Float(0)
             ELSE IF f.v > SleepCap THEN Float(SleepCap)
             ELSE f
    ELSE Float(DefaultSleep)

\* The three integers taken as a date without range checks.
ParseDateUnchecked(date_str) ==
    IF date_str.k # "dstr" THEN NoneV
    ELSE LET p == date_str.parts
         IN  IF Len(p) # 3 THEN NoneV
             ELSE IF \E i \in 1..3 : p[i].k # "int" THEN NoneV
             ELSE DT(Date(p[1].v, p[2].v, p[3].v), 0, KSTOffset)

\* Lines 290-291: map(int, date_str.split("-")) unpacked into three names,
\* then datetime(yyyy, mm, dd, tzinfo=KST).  NoneV is any exception.
ParseDate(date_str) ==
    IF date_str.k # "dstr" THEN NoneV
    ELSE LET p == date_str.parts
         IN  IF Len(p) # 3 THEN NoneV
             ELSE IF \E i \in 1..3 : p[i].k # "int" THEN NoneV
             ELSE IF ~ValidDate(p[1].v, p[2].v, p[3].v) THEN NoneV
             ELSE DT(Date(p[1].v, p[2].v, p[3].v), 0, KSTOffset)

\* strftime("%Y-%m-%d")
StrfDate(dt) == DStr(<<IntField(dt.date.y), IntField(dt.date.m), IntField(dt.date.d)>>)

\* dict.get(key, default) / the "key in body" conditional
BodyGet(v, default) == IF v.k = "absent" THEN default ELSE v

Params(date, limit, sleep, category_url) ==
    [date |-> date, limit |-> limit, sleep |-> sleep, category_url |-> category_url]

\* Lines 270-284: the four parameters after the query string and, for POST,
\* the body have been read.  A body that is not JSON reads as {}.
CollectParams(req) ==
    LET qs == req.params
        q == Params(qs.date, qs.limit, qs.sleep, PyOr(qs.category_url, CATEGORY_URL))
        b == req.body
    IN  IF req.method = "POST" /\ b.k = "dict"
        THEN Params(BodyGet(b.date, q.date),
                    IF b.limit.k # "absent" THEN Str(b.limit) ELSE q.limit,
                    IF b.sleep.k # "absent" THEN Str(b.sleep) ELSE q.sleep,
                    BodyGet(b.category_url, q.category_url))
        ELSE q

\* ------------------------------------------------------------ input sets
D1 == Date(2025, 1, 1)
D2 == Date(2025, 1, 2)

\* "2025-01-01T03:00:00+00:00": 12:00 on 1 January in Seoul
IsoA == Iso(D1, 3, 0, FALSE)
\* "2025-01-01T20:00:00Z": 05:00 on 2 January in Seoul
IsoB == Iso(D1, 20, 0, TRUE)
\* "2025-01-01T12:00:00-05:00": 02:00 on 2 January in Seoul
IsoC == Iso(D1, 12, -5, FALSE)
\* "2025-02-30T00:00:00+00:00": ISO-shaped, not a date
IsoBad == Iso(Date(2025, 2, 30), 0, 0, FALSE)

StrBody == [k |-> "str"]
NumBody == [k |-> "num", v |-> 5]

Page(meta, ld, time, text, paras) ==
    [k |-> "page", meta |-> meta, ld |-> ld, time |-> time, text |-> text,
     paras |-> paras]
TimeTag(datetime, text) == [k |-> "time", datetime |-> datetime, text |-> text]

MetaVals == {NoneV, EmptyStr, JunkStr, IsoBad, IsoA, IsoB}

LdBlocks ==
    { BadJson,
      LdBlock(<<>>),
      LdBlock(<<LdObj("NewsArticle", IsoB, NoneV, NoneV)>>),
      LdBlock(<<LdObj("Article", NoneV, IsoC, NoneV)>>),
      LdBlock(<<LdObj("WebPage", IsoC, NoneV, NoneV)>>),
      LdBlock(<<LdObj("BlogPosting", JunkStr, IsoA, NoneV),
                LdObj("NewsArticle", IsoC, NoneV, NoneV)>>),
      LdBlock(<<LdObj("WebPage", IsoA, NoneV, NoneV),
                LdObj("NewsArticle", EmptyStr, IsoC, NoneV)>>) }

SeqsUpTo(S, n) == UNION {[1..m -> S] : m \in 0..n}

LdVals == SeqsUpTo(LdBlocks, MaxBlocks)

TextVals == {PlainText, HDate(1, 2, 2025), HDate(2, 30, 2025)}

TimeVals ==
    {NoneV} \cup
    {TimeTag(d, t) : d \in {NoneV, JunkStr, IsoC},
                     t \in {EmptyStr} \cup TextVals}

\* The visible text of a page contains the visible text of its <time>.
ResolverPages ==
    {pg \in {Page(m, l, t, x, EmptyStr) :
                m \in MetaVals, l \in LdVals, t \in TimeVals, x \in TextVals} :
        (pg.time.k = "time" /\ pg.time.text.k = "hdate") => pg.text.k = "hdate"}

\* The article pages served during a crawl.
CrawlPages ==
    { Page(NoneV, <<>>, NoneV, PlainText, StrBody),
      Page(IsoA, <<>>, NoneV, PlainText, StrBody),
      Page(IsoB, <<LdBlock(<<LdObj("NewsArticle", IsoA, NoneV, StrBody)>>)>>,
           NoneV, PlainText, EmptyStr),
      Page(JunkStr, <<>>, TimeTag(IsoC, EmptyStr), PlainText, StrBody),
      Page(NoneV, <<>>, NoneV, HDate(1, 2, 2025), StrBody),
      Page(IsoA, <<LdBlock(<<LdObj("NewsArticle", IsoA, NoneV, NumBody)>>)>>,
           NoneV, PlainText, StrBody) }

PathA == <<"2025", "09", "a">>
PathB == <<"2025", "09", "b">>
HAbsA == Url("https", TC, TRUE, PathA, TRUE)
HRootA == Url("", <<>>, TRUE, PathA, TRUE)
HRootB == Url("", <<>>, TRUE, PathB, TRUE)
HProtoB == Url("", TC, TRUE, PathB, TRUE)
HRelC == Url("", <<>>, FALSE, <<"x", "2025", "09", "c">>, TRUE)
HBareC == Url("", <<>>, FALSE, <<"2025", "09", "c">>, TRUE)
HEvilA == Url("https", <<"evil-", "techcrunch.com">>, TRUE, PathA, TRUE)
HOtherA == Url("https", <<"example.com">>, TRUE, PathA, TRUE)
HAbout == Url("", <<>>, TRUE, <<"about">>, TRUE)

Hrefs == {HAbsA, HRootA, HRootB, HProtoB, HRelC, HBareC, HEvilA, HOtherA, HAbout}
CrawlHrefs == {HAbsA, HRootA, HRootB, HAbout}

Anchors(hrefs) == {Anchor(h, b) : h \in hrefs, b \in BOOLEAN}
Docs == SeqsUpTo(Anchors(Hrefs), MaxAnchors)
CrawlDocs == SeqsUpTo(Anchors(CrawlHrefs), MaxAnchors)

OtherCategory == Url("https", <<"example.com">>, TRUE, <<"news">>, TRUE)
CategoryUrls == {CATEGORY_URL, OtherCategory}

DateD1 == DStr(<<IntField(2025), IntField(1), IntField(1)>>)
DateD2 == DStr(<<IntField(2025), IntField(1), IntField(2)>>)
\* "2025-13-40", "2025-01", "today"
DateBad == DStr(<<IntField(2025), IntField(13), IntField(40)>>)
DateShort == DStr(<<IntField(2025), IntField(1)>>)
DateWord == DStr(<<TxtField>>)

NoParams == Params(NoneV, NoneV, NoneV, NoneV)
NoBody == [k |-> "invalid"]
ArrayBody == [k |-> "array"]
Body(date, limit, sleep, category_url) ==
    [k |-> "dict", date |-> date, limit |-> limit, sleep |-> sleep,
     category_url |-> category_url]
EmptyBody == Body(Absent, Absent, Absent, Absent)

Request(method, params, body) == [k |-> "req", method |-> method, params |-> params, body |-> body]

Methods == {"GET", "POST"}

\* Requests that vary one parameter at a time, in the query string and in
\* the body, plus the bodies that are not a JSON object.
Requests ==
    {Request(m, [NoParams EXCEPT !.date = q], [EmptyBody EXCEPT !.date = b]) :
        m \in Methods,
        q \in {NoneV, EmptyStr, DateD1, DateBad, DateShort, DateWord},
        b \in {Absent, EmptyStr, DateD2, DateBad, Num(20250101)}}
    \cup
    {Request(m, [NoParams EXCEPT !.limit = q], [EmptyBody EXCEPT !.limit = b]) :
        m \in Methods,
        q \in {NoneV, Lit(1), Lit(100), Txt},
        b \in {Absent, Num(2), NoneV}}
    \cup
    {Request(m, [NoParams EXCEPT !.sleep = q], [EmptyBody EXCEPT !.sleep = b]) :
        m \in Methods,
        q \in {NoneV, Dec(5), Lit(3), Lit(-1), NanStr},
        b \in {Absent, Num(1)}}
    \cup
    {Request(m, [NoParams EXCEPT !.category_url = q],
                [EmptyBody EXCEPT !.category_url = b]) :
        m \in Methods,
        q \in {NoneV, EmptyStr, OtherCategory},
        b \in {Absent, CATEGORY_URL}}
    \cup
    {Request(m, [NoParams EXCEPT !.date = q], b) :
        m \in Methods, q \in {NoneV, DateD1, DateBad}, b \in {NoBody, ArrayBody}}

\* ----------------------------------------------------------------- state
VARIABLES
    pc,            \* where ai_today is: idle, crawl, fetch, sleep, respond, done
    req,           \* the request being served
    today_kst,     \* ai_today's today_kst (line 287): NoneV or a datetime
    limit,         \* ai_today's limit
    sleep_sec,     \* ai_today's sleep_sec
    category_url,  \* ai_today's category_url
    ref_kst,       \* crawl_today's today_kst (lines 246-247)
    links,         \* crawl_today's links
    idx,           \* position of the for loop in links
    results,       \* crawl_today's results
    trace,         \* every fetch and sleep performed, in order
    now,           \* the clock, in hours since 2025-01-01T00:00 in Seoul
    resp,          \* the HttpResponse returned
    d_pc, d_cat, d_doc, d_limit, d_links,  \* a call of get_article_links
    t_pc, t_page, t_result                 \* a call of the timestamp resolver

handlerVars ==
    <<pc, req, today_kst, limit, sleep_sec, category_url, ref_kst, links, idx,
      results, trace, now, resp>>
discoveryVars == <<d_pc, d_cat, d_doc, d_limit, d_links>>
resolverVars == <<t_pc, t_page, t_result>>
vars == <<handlerVars, discoveryVars, resolverVars>>

ClockStarts == {22, 23}

\* datetime.now(KST)
NowKST(h) == DT(AddDays(D1, h \div 24), h % 24, KSTOffset)

\* The clock after a blocking call (a fetch or a sleep) that started at h.
Elapse(h) == IF h < MaxNow THEN {h, h + 1} ELSE {h}

NoResp == [status |-> 0]
Response400 ==
    [status |-> 400, body |-> [k |-> "error", error |-> "invalid date format, use YYYY-MM-DD"]]
Response500(detail) ==
    [status |-> 500, body |-> [k |-> "error", error |-> "internal_error", detail |-> detail]]
Response200(date_kst, items) ==
    [status |-> 200,
     body |-> [k |-> "out", date_kst |-> date_kst, count |-> Len(items), items |-> items]]

Listing == [k |-> "listing"]
FetchEvent(url, got) == [op |-> "fetch", url |-> url, got |-> got]
SleepEvent(sec) == [op |-> "sleep", url |-> NoneV, got |-> sec]

HandlerIdle ==
    /\ pc = "idle" /\ req = NoneV /\ today_kst = NoneV
    /\ limit = DefaultLimit /\ sleep_sec = Float(DefaultSleep)
    /\ category_url = CATEGORY_URL /\ ref_kst = NoneV
    /\ links = <<>> /\ idx = 0 /\ results = <<>> /\ trace = <<>>
    /\ resp = NoResp
DiscoveryIdle ==
    /\ d_pc = "off" /\ d_cat = CATEGORY_URL /\ d_doc = <<>> /\ d_limit = 1
    /\ d_links = <<>>
ResolverIdle ==
    /\ t_pc = "off" /\ t_page = NoneV /\ t_result = NoneV

Init ==
    /\ HandlerIdle
    /\ now \in ClockStarts
    /\ DiscoveryIdle
    /\ ResolverIdle

\* ------------------------------------------------------------- ai_today
\* Lines 268-316: parameters are collected and parsed; no I/O happens.
ReceiveRequest(r) ==
    /\ pc = "idle"
    /\ req' = r
    /\ IF r.method = "POST" /\ r.body.k = "array"
       THEN \* body.get on a list: AttributeError, caught at line 333
            /\ resp' = Response500("AttributeError")
            /\ pc' = "done"
            /\ UNCHANGED <<today_kst, limit, sleep_sec, category_url>>
       ELSE LET p == CollectParams(r)
            IN  IF Truthy(p.date) /\ ParseDate(p.date) = NoneV
                THEN /\ resp' = Response400
                     /\ pc' = "done"
                     /\ UNCHANGED <<today_kst, limit, sleep_sec, category_url>>
                ELSE /\ today_kst' = IF Truthy(p.date) THEN ParseDate(p.date) ELSE NoneV
                     /\ limit' = ParseLimit(p.limit)
                     /\ sleep_sec' = ParseSleep(p.sleep)
                     /\ category_url' = p.category_url
                     /\ pc' = "crawl"
                     /\ UNCHANGED resp
    /\ UNCHANGED <<ref_kst, links, idx, results, trace, now>>
    /\ UNCHANGED <<discoveryVars, resolverVars>>

\* Lines 246-248: crawl_today fixes its reference date and calls
\* get_article_links, whose fetch of the category page may raise.
FetchCategory ==
    /\ pc = "crawl"
    /\ ref_kst' = IF today_kst = NoneV THEN NowKST(now) ELSE today_kst
    /\ now' \in Elapse(now)
    /\ \/ /\ trace' = <<FetchEvent(category_url, FetchError)>>
          /\ resp' = Response500("HTTPError")
          /\ pc' = "done"
          /\ UNCHANGED <<links, idx>>
       \/ \E doc \in CrawlDocs :
          \E l \in get_article_links(category_url, doc, limit) :
            /\ trace' = <<FetchEvent(category_url, Listing)>>
            /\ links' = l
            /\ idx' = 1
            /\ pc' = IF l = <<>> THEN "respond" ELSE "fetch"
            /\ UNCHANGED resp
    /\ UNCHANGED <<req, today_kst, limit, sleep_sec, category_url, results>>
    /\ UNCHANGED <<discoveryVars, resolverVars>>

\* Lines 250-258: one iteration of the loop up to the sleep.
Keep(art, today) ==
    /\ art.k = "art"
    /\ Truthy(art.published_kst)
    /\ is_today_kst(FromIsoFormat(art.published_kst), today)

FetchArticle ==
    /\ pc = "fetch"
    /\ \E fetched \in CrawlPages \cup {FetchError} :
        LET art == parse_article(links[idx], fetched)
        IN  /\ results' = IF Keep(art, ref_kst) THEN Append(results, art) ELSE results
            /\ trace' = Append(trace, FetchEvent(links[idx], fetched))
    /\ now' \in Elapse(now)
    /\ pc' = "sleep"
    /\ UNCHANGED <<req, today_kst, limit, sleep_sec, category_url, ref_kst, links,
                   idx, resp>>
    /\ UNCHANGED <<discoveryVars, resolverVars>>

\* Line 259: time.sleep(sleep_sec), outside the try; time.sleep raises
\* ValueError for NaN, which ends crawl_today and is caught at line 333.
Sleep ==
    /\ pc = "sleep"
    /\ IF sleep_sec.k = "nan"
       THEN /\ resp' = Response500("ValueError")
            /\ pc' = "done"
            /\ UNCHANGED <<trace, idx, now>>
       ELSE /\ trace' = Append(trace, SleepEvent(sleep_sec))
            /\ now' \in Elapse(now)
            /\ idx' = idx + 1
            /\ pc' = IF idx < Len(links) THEN "fetch" ELSE "respond"
            /\ UNCHANGED resp
    /\ UNCHANGED <<req, today_kst, limit, sleep_sec, category_url, ref_kst, links,
                   results>>
    /\ UNCHANGED <<discoveryVars, resolverVars>>

\* Lines 260, 322-331: crawl_today has returned results; the response is built.
Respond ==
    /\ pc = "respond"
    /\ resp' = Response200(StrfDate(PyOr(today_kst, NowKST(now))), results)
    /\ pc' = "done"
    /\ UNCHANGED <<req, today_kst, limit, sleep_sec, category_url, ref_kst, links,
                   idx, results, trace, now>>
    /\ UNCHANGED <<discoveryVars, resolverVars>>

Next ==
    \/ \E r \in Requests : ReceiveRequest(r)
    \/ FetchCategory
    \/ FetchArticle
    \/ Sleep
    \/ Respond

Spec == Init /\ [][Next]_vars

\* ------------------------------------------------- get_article_links alone
InitLinks ==
    /\ HandlerIdle
    /\ now = 0
    /\ ResolverIdle
    /\ d_pc = "call"
    /\ d_cat \in CategoryUrls
    /\ d_doc \in Docs
    /\ d_limit \in 1..MaxLimit
    /\ d_links = <<>>

Discover ==
    /\ d_pc = "call"
    /\ d_links' \in get_article_links(d_cat, d_doc, d_limit)
    /\ d_pc' = "returned"
    /\ UNCHANGED <<d_cat, d_doc, d_limit>>
    /\ UNCHANGED <<handlerVars, resolverVars>>

NextLinks == Discover

SpecLinks == InitLinks /\ [][NextLinks]_vars

\* ------------------------------------------------ timestamp resolver alone
InitResolver ==
    /\ HandlerIdle
    /\ now = 0
    /\ DiscoveryIdle
    /\ t_pc = "call"
    /\ t_page \in ResolverPages
    /\ t_result = NoneV

Resolve ==
    /\ t_pc = "call"
    /\ t_result' = ResolveTimestamp(t_page)
    /\ t_pc' = "returned"
    /\ UNCHANGED t_page
    /\ UNCHANGED <<handlerVars, discoveryVars>>

NextResolver == Resolve

SpecResolver == InitResolver /\ [][NextResolver]_vars

\* ================================================================ claims
\* The article attempts made so far: every fetch after the category fetch.
IsFetch(e) == e.op = "fetch"
Attempts == IF trace = <<>> THEN <<>> ELSE SelectSeq(Tail(trace), IsFetch)

\* The Seoul calendar date of the instant a datetime denotes.
SeoulDate(dt) == AddDays(dt.date, FloorDiv24(dt.hour - dt.off + KSTOffset))

\* The attempt fetched a page, parsing it raised nothing, and the page's
\* resolved instant falls on the reference date in Seoul.
Qualifies(e) ==
    /\ e.got.k = "page"
    /\ parse_article(e.url, e.got) # ParseFailed
    /\ ResolveTimestamp(e.got) # NoneV
    /\ SeoulDate(ResolveTimestamp(e.got)) = ref_kst.date

ResultUrls == {results[i].url : i \in 1..Len(results)}
QualifyingUrls == {Attempts[i].url : i \in {j \in 1..Len(Attempts) : Qualifies(Attempts[j])}}

\* C1: at every point of crawl_today, and in the list it returns, an article
\* is in results iff its page was fetched and parsed without error and its
\* resolved instant, in Asia/Seoul, falls on the reference date; no article
\* with a null published_kst is in results.
C1_TodayFilter ==
    /\ ResultUrls = QualifyingUrls
    /\ \A i \in 1..Len(results) : results[i].published_kst # NoneV

\* crawl_today returned a list that holds an article whose UTC and Seoul
\* dates differ and leaves out an article with no resolvable timestamp.
C1_Witness ==
    /\ pc = "respond"
    /\ \E i \in 1..Len(results) :
          results[i].published_utc.date # results[i].published_kst.date
    /\ \E i \in 1..Len(Attempts) :
          /\ Attempts[i].got.k = "page"
          /\ ResolveTimestamp(Attempts[i].got) = NoneV

NoDuplicates(seq) == \A i, j \in 1..Len(seq) : i # j => seq[i] # seq[j]

\* C4: get_article_links returns at most limit URLs, pairwise different.
C4_BoundedDistinct ==
    d_pc = "returned" => Len(d_links) <= d_limit /\ NoDuplicates(d_links)

\* The heading pass alone found more than limit links, and the page links
\* one article under two href spellings.
C4_Witness ==
    /\ d_pc = "returned"
    /\ Cardinality(PrimaryPass(d_doc)) > d_limit
    /\ Len(d_links) = d_limit
    /\ \E i, j \in 1..Len(d_doc) :
          /\ d_doc[i].href # d_doc[j].href
          /\ is_article_url(d_doc[i].href)
          /\ normalize_link(d_doc[i].href) = normalize_link(d_doc[j].href)

\* The value a strategy yields for the page, in the order of the claim.
Strategies(page) ==
    << get_meta_datetime(page), get_ldjson_datetime(page),
       get_time_tag_datetime(page), get_text_datetime_fallback(page) >>

FirstYield(vals) ==
    IF \A i \in 1..Len(vals) : vals[i] = NoneV THEN NoneV
    ELSE vals[CHOOSE i \in 1..Len(vals) :
                 vals[i] # NoneV /\ \A j \in 1..(i - 1) : vals[j] = NoneV]

\* C6: the resolver returns the value of the first of meta tag, JSON-LD,
\* time element, free text that yields a timestamp, and no timestamp when
\* none does; a parseable meta tag wins whatever the JSON-LD says.
C6_StrategyOrder ==
    t_pc = "returned" =>
        /\ t_result = FirstYield(Strategies(t_page))
        /\ (t_page.meta.k = "iso" /\ ValidDate(t_page.meta.date.y, t_page.meta.date.m,
                                               t_page.meta.date.d))
              => t_result = DT(t_page.meta.date, t_page.meta.hour,
                               IF t_page.meta.z THEN 0 ELSE t_page.meta.off)

\* A page with a parseable meta tag and a JSON-LD date naming another instant.
C6_Witness ==
    /\ t_pc = "returned"
    /\ get_meta_datetime(t_page) # NoneV
    /\ get_ldjson_datetime(t_page) # NoneV
    /\ get_ldjson_datetime(t_page) # get_meta_datetime(t_page)
    /\ t_result = get_meta_datetime(t_page)

CategoryFetched == trace # <<>> /\ trace[1].got = Listing
CategoryFailed == trace # <<>> /\ trace[1].got = FetchError

AttemptFailed(e) == e.got.k = "error" \/ parse_article(e.url, e.got) = ParseFailed

\* C2: a failed category fetch gives a 500 {error, detail}; a failed article
\* fetch or parse only skips that article: once the handler is done, every
\* discovered link was attempted, the articles that pass the filter are in
\* the output and the response is a 200.
C2_FailureIsolation ==
    /\ (pc = "done" /\ CategoryFailed) =>
          /\ resp.status = 500
          /\ resp.body.error = "internal_error"
          /\ "detail" \in DOMAIN resp.body
    /\ (pc = "done" /\ CategoryFetched
          /\ \E i \in 1..Len(Attempts) : AttemptFailed(Attempts[i])) =>
          /\ resp.status = 200
          /\ Len(Attempts) = Len(links)
          /\ {resp.body.items[i].url : i \in 1..Len(resp.body.items)} = QualifyingUrls

BothGiven(q, b) == q # NoneV /\ req.body.k = "dict" /\ b # Absent

\* C3: once the parameters are parsed, a parameter given in the query string
\* and in the body has the value parsed from the query string.
C3_QueryPrecedence ==
    (pc = "crawl") =>
        /\ BothGiven(req.params.date, req.body.date) =>
              today_kst = (IF Truthy(req.params.date)
                           THEN ParseDate(req.params.date) ELSE NoneV)
        /\ BothGiven(req.params.limit, req.body.limit) =>
              limit = ParseLimit(req.params.limit)
        /\ BothGiven(req.params.sleep, req.body.sleep) =>
              sleep_sec = ParseSleep(req.params.sleep)
        /\ BothGiven(req.params.category_url, req.body.category_url) =>
              category_url = PyOr(req.params.category_url, CATEGORY_URL)

\* C5: every returned link is an href of the page resolved against the
\* category URL that was passed, and an href that names a host names the
\* category page's host.
C5_ResolvedAgainstCategory ==
    d_pc = "returned" =>
        \A i \in 1..Len(d_links) :
            \E j \in 1..Len(d_doc) :
                /\ d_links[i] = UrlJoin(d_cat, d_doc[j].href)
                /\ d_doc[j].href.netloc # <<>> => d_doc[j].href.netloc = d_cat.netloc

\* The date text the handler ends up with.
DateGiven(r) ==
    IF r.method = "POST" /\ r.body.k = "dict"
    THEN BodyGet(r.body.date, r.params.date) ELSE r.params.date

\* Not three "-"-separated integers that name a calendar date.
NotADate(d) ==
    \/ d.k # "dstr"
    \/ Len(d.parts) # 3
    \/ \E i \in 1..Len(d.parts) : d.parts[i].k # "int"
    \/ ~ValidDate(d.parts[1].v, d.parts[2].v, d.parts[3].v)

RECURSIVE AddedByHeadings(_, _, _)
AddedByHeadings(doc, i, acc) ==
    IF i > Len(doc) THEN acc
    ELSE LET u == normalize_link(doc[i].href)
             new == doc[i].h3 /\ is_article_url(doc[i].href)
                      /\ \A j \in 1..Len(acc) : acc[j] # u
         IN  AddedByHeadings(doc, i + 1, IF new THEN Append(acc, u) ELSE acc)

RECURSIVE AddedByAnchors(_, _, _, _)
AddedByAnchors(doc, i, acc, lim) ==
    IF i > Len(doc) THEN acc
    ELSE LET u == normalize_link(doc[i].href)
             new == is_article_url(doc[i].href) /\ \A j \in 1..Len(acc) : acc[j] # u
             acc2 == IF new THEN Append(acc, u) ELSE acc
         IN  IF Len(acc2) >= lim THEN acc2 ELSE AddedByAnchors(doc, i + 1, acc2, lim)

FirstAdded(doc, lim) ==
    LET h == AddedByHeadings(doc, 1, <<>>)
    IN  IF Len(h) < lim THEN AddedByAnchors(doc, 1, h, lim) ELSE h

\* C8: get_article_links returns the links in the order they were first
\* added, heading pass first, then document order.
C8_DiscoveryOrder ==
    d_pc = "returned" =>
        d_links = SubSeq(FirstAdded(d_doc, d_limit), 1, Len(d_links))

\* C9: after the category fetch each link is fetched once, in list order,
\* each fetch followed by one sleep: 1 + Len(links) fetches in all.
C9_FetchSleepAlternation ==
    (pc \in {"respond", "done"} /\ CategoryFetched) =>
        /\ Len(trace) = 1 + 2 * Len(links)
        /\ \A i \in 1..Len(links) :
              /\ trace[2 * i].op = "fetch" /\ trace[2 * i].url = links[i]
              /\ trace[2 * i + 1].op = "sleep"

\* C10: in a success response date_kst is the reference date the filter
\* used, every item was published on it, and count is the number of items.
C10_DateKstIsReference ==
    resp.status = 200 =>
        /\ resp.body.date_kst = StrfDate(ref_kst)
        /\ resp.body.count = Len(resp.body.items)
        /\ \A i \in 1..Len(resp.body.items) :
              StrfDate(resp.body.items[i].published_kst) = resp.body.date_kst

====
